---------------------------- MODULE Spec2Model ----------------------------
(***************************************************************************)
(* Model of batch_convert.py: convert_pdf_to_md, the sequential batch that *)
(* posts every '*.pdf' of the input directory to the conversion service    *)
(* and writes the returned Markdown to '<stem>.md' in the output           *)
(* directory.  File names are sequences of their dot-separated parts, so   *)
(* that Path.stem and the glob pattern are computed, not assumed.  Texts   *)
(* are sequences of characters, so that the text-mode write is computed.   *)
(***************************************************************************)
EXTENDS Integers, Sequences, FiniteSets, TLC

\* ---------------------------------------------------------------- bounds
MaxFiles == 2      \* at most this many entries in the input directory

\* ------------------------------------------------------------ file names
\* A name is the sequence of its dot-separated parts: "a.pdf" is <<"a","pdf">>,
\* ".pdf" is <<"","pdf">> and ".pdf.pdf" is <<"","pdf","pdf">>.
NameUniverse ==
  { <<"a", "pdf">>, <<"", "pdf">>, <<"", "pdf", "pdf">>, <<"a", "txt">> }

\* input_path.glob('*.pdf'): the name ends with ".pdf"
Matches(n) == Len(n) >= 2 /\ n[Len(n)] = "pdf"

\* pathlib's PurePath.stem: i = name.rfind('.'); name[:i] if 0 < i < len-1
\* else the whole name.
Stem(n) ==
  IF Len(n) >= 2 /\ ~(Len(n) = 2 /\ n[1] = "") /\ n[Len(n)] # ""
  THEN SubSeq(n, 1, Len(n) - 1)
  ELSE n

\* md_filename = pdf_file.stem + '.md'
MdName(n) == Stem(n) \o <<"md">>

PdfNames == { n \in NameUniverse : Matches(n) }
Targets  == { MdName(n) : n \in PdfNames }

\* list(...) of the glob: any order of the matching entries
RECURSIVE Perms(_)
Perms(S) ==
  IF S = {} THEN { <<>> }
  ELSE UNION { { <<x>> \o p : p \in Perms(S \ {x}) } : x \in S }

\* ------------------------------------------------------------------ texts
None    == <<"None">>          \* a JSON key that is absent or null
NoFile  == <<"NoFile">>        \* no directory entry of that name
OldText == <<"o">>             \* what an output file found at the start holds
Text    == <<"x", "\n">>       \* the Markdown the service returns

\* Python's truth value of md_content and markdownUrl
Truthy(t) == t # None /\ t # <<>>

\* open(target_file, 'w', encoding='utf-8'): text mode with newline=None
\* writes every '\n' as os.linesep
RECURSIVE Encode(_, _)
Encode(t, sep) ==
  IF t = <<>> THEN <<>>
  ELSE (IF Head(t) = "\n" THEN sep ELSE <<Head(t)>>) \o Encode(Tail(t), sep)

LineSeps == { <<"\n">>, <<"\r", "\n">> }

\* ----------------------------------------- what the environment answers
HTTP_OK == 200

\* One record per iteration: readable, open(pdf_file,'rb') and the upload's
\* reads work; post, the POST raises ConnectionError ("conn"), raises something
\* else ("timeout") or returns ("resp") with status and body; body, json()
\* raises ("badjson"), success is falsy ("false"), success is true and
\* result['data'] raises ("nodata"), or data is there ("ok") with
\* markdownContent content and a markdownUrl or not; get, gstatus, gtext, the
\* secondary GET alike; wopen, open(target_file,'w') works; wkeep = -1, the
\* write works, wkeep = k >= 0, write() raises with k characters on disk
\* (k = 0: TypeError, UnicodeEncodeError, a full disk).
NoAnswer ==
  [ readable |-> TRUE, post |-> "resp", status |-> HTTP_OK, body |-> "false",
    content |-> None, url |-> FALSE, get |-> "none", gstatus |-> 0,
    gtext |-> <<>>, wopen |-> TRUE, wkeep |-> -1 ]

WriteWays ==
  { [ wopen |-> FALSE, wkeep |-> -1 ], [ wopen |-> TRUE, wkeep |-> -1 ],
    [ wopen |-> TRUE, wkeep |-> 0 ], [ wopen |-> TRUE, wkeep |-> 1 ] }

\* what stands for the answers of an iteration that asked nothing (a skip)
Unasked == [ NoAnswer EXCEPT !.post = "none" ]

Inline  == [ NoAnswer EXCEPT !.body = "ok", !.content = Text ]
Fetched == [ NoAnswer EXCEPT !.body = "ok", !.url = TRUE, !.get = "resp",
                             !.gstatus = HTTP_OK, !.gtext = Text ]

Envs ==
     { [ NoAnswer EXCEPT !.readable = FALSE ] }
  \cup { [ NoAnswer EXCEPT !.post = p ] : p \in { "conn", "timeout" } }
  \cup { [ Inline EXCEPT !.status = 201 ], [ NoAnswer EXCEPT !.status = 500, !.body = "badjson" ] }
  \cup { [ NoAnswer EXCEPT !.body = b ] : b \in { "badjson", "false", "nodata" } }
  \cup { [ NoAnswer EXCEPT !.body = "ok", !.content = c ] : c \in { None, <<>> } }
  \cup { [ Inline EXCEPT !.wopen = w.wopen, !.wkeep = w.wkeep ] : w \in WriteWays }
  \cup { [ Inline EXCEPT !.url = TRUE ] }
  \cup { [ Fetched EXCEPT !.get = "conn", !.gstatus = 0, !.gtext = <<>> ],
         [ Fetched EXCEPT !.gstatus = 404 ], [ Fetched EXCEPT !.gstatus = 201 ],
         [ Fetched EXCEPT !.gtext = <<>> ], [ Fetched EXCEPT !.content = <<>> ] }
  \cup { [ Fetched EXCEPT !.wopen = w.wopen, !.wkeep = w.wkeep ] : w \in WriteWays }

\* ------------------------------------------------ one document's handling
\* mutants of line 51: the check looks where no '.md' is; the check takes an
\* empty output file for a missing one
AlreadyConverted_WrongDir(fsys, d) == FALSE
AlreadyConverted_Empty(fsys, d) == fsys[MdName(d)] \notin { NoFile, <<>> }

\* line 51: target_file.exists()
AlreadyConverted(fsys, d) == fsys[MdName(d)] # NoFile

\* mutant of line 82: any 2xx status is taken
StatusOk_2xx(s) == s \in 200 .. 299

\* line 82: response.status_code == 200
StatusOk(s) == s = HTTP_OK

\* mutant of lines 89-91: the GET is made whenever there is a markdownUrl
GetIssued_Always(env) == env.url

\* lines 89-91: the secondary GET is made when md_content is falsy and
\* markdownUrl is truthy
GetIssued(env) == ~Truthy(env.content) /\ env.url

\* lines 86-100: md_content after the optional secondary fetch
MdContent(env) ==
  IF GetIssued(env) /\ env.get = "resp" /\ StatusOk(env.gstatus)
  THEN env.gtext
  ELSE env.content

\* mutant of lines 105-109: the text is written somewhere else
WriteFile_Elsewhere(fsys, target, text, env, sep) == fsys

\* lines 108-109: open(target_file, 'w', encoding='utf-8') creates or truncates
\* the file, then f_out.write(md_content); the with-block closes it on every path
WriteFile(fsys, target, text, env, sep) ==
  IF ~env.wopen THEN fsys
  ELSE IF env.wkeep = -1 THEN [ fsys EXCEPT ![target] = Encode(text, sep) ]
  ELSE [ fsys EXCEPT ![target] = SubSeq(Encode(text, sep), 1, env.wkeep) ]

\* lines 102-115: what the document is counted as once md_content is known
Counted(md, env) ==
  IF ~Truthy(md) THEN "nocontent"
  ELSE IF env.wopen /\ env.wkeep = -1 THEN "success"
  ELSE "writeerr"

\* an iteration that opens no output file: fsys is left as it is
NoWrite(fsys, o, p, g) ==
  [ fs |-> fsys, outcome |-> o, posted |-> p, got |-> g, opened |-> FALSE ]

\* mutant of lines 116-119: the failure branch leaves an empty output file
ApiFailure_Touches(fsys, d) ==
  [ fs |-> [ fsys EXCEPT ![MdName(d)] = <<>> ], outcome |-> "api",
    posted |-> 1, got |-> 0, opened |-> TRUE ]

\* lines 116-119: success is falsy; the message is printed, fail_count += 1
ApiFailure(fsys, d) == NoWrite(fsys, "api", 1, 0)

\* lines 48-131: one iteration of the loop on file system fsys, as a function
\* of what the environment answers.  outcome: skip | success | a failure kind;
\* posted, got: requests sent; opened: the output file was opened for writing.
HandleDoc(fsys, d, env, sep) ==
  IF AlreadyConverted(fsys, d) THEN NoWrite(fsys, "skip", 0, 0)
  ELSE IF ~env.readable THEN NoWrite(fsys, "readerr", 0, 0)
  ELSE IF env.post = "conn" THEN NoWrite(fsys, "connerr", 1, 0)
  ELSE IF env.post # "resp" THEN NoWrite(fsys, "exc", 1, 0)
  ELSE IF ~StatusOk(env.status) THEN NoWrite(fsys, "http", 1, 0)
  ELSE IF env.body = "badjson" THEN NoWrite(fsys, "exc", 1, 0)
  ELSE IF env.body = "false" THEN ApiFailure(fsys, d)
  ELSE IF env.body = "nodata" THEN NoWrite(fsys, "exc", 1, 0)
  ELSE LET md == MdContent(env)
           g  == IF GetIssued(env) THEN 1 ELSE 0
       IN  IF ~Truthy(md)
           THEN NoWrite(fsys, "nocontent", 1, g)
           ELSE [ fs |-> WriteFile(fsys, MdName(d), md, env, sep),
                  outcome |-> Counted(md, env), posted |-> 1, got |-> g,
                  opened |-> env.wopen ]

\* mutant of lines 129-131: the last except clause does not count
Failures_NoExc == { "connerr", "http", "api", "nocontent" }

\* lines 112, 115, 119, 123, 128, 131: the branches that add to fail_count
Failures == { "readerr", "connerr", "exc", "http", "api", "nocontent", "writeerr" }

\* ------------------------------------------------------------------ state
VARIABLES
  linesep,        \* os.linesep of the platform
  inputExists,    \* INPUT_DIR is a directory
  outputExists,   \* OUTPUT_DIR is a directory
  inputFiles,     \* the entries of INPUT_DIR
  fs,             \* OUTPUT_DIR: target name -> content, or NoFile (the
                  \* entries no document of INPUT_DIR maps to are never looked
                  \* at and are left out)
  pc,             \* where convert_pdf_to_md is
  pdf_files,      \* line 32
  index,          \* line 45, the position in pdf_files
  success_count,  \* line 41
  fail_count,     \* line 42
  printed,        \* the last message of the run: none | no_output | no_input |
                  \* no_pdf | summary
  enumerated,     \* this run called glob (line 32)
  start,          \* when this run started: INPUT_DIR, OUTPUT_DIR, its files, openTotal
  outcome,        \* this run: document -> how its iteration ended
  posts,          \* this run: document -> POSTs sent for it
  last,           \* the latest iteration: its document, the answers it got,
                  \* the GETs it sent, and the counters and files it started from
  prev,           \* the run before this one: it ended with the summary and
                  \* every enumerated document a success; the documents it
                  \* counted as failures
  succTotal,      \* document -> iterations counted as success, over all runs
  openTotal,      \* target -> times opened for writing, over all runs
  altDoc,         \* the first document of this run answered success:false
  fsAlt,          \* OUTPUT_DIR of the run in which altDoc succeeded instead
  outcomeAlt      \* the outcomes of that run

vars ==
  << linesep, inputExists, outputExists, inputFiles, fs, pc, pdf_files,
     index, success_count, fail_count, printed, enumerated, start, outcome,
     posts, last, prev, succTotal, openTotal, altDoc, fsAlt, outcomeAlt >>

NoDoc  == <<>>
NoRun  == [ n \in NameUniverse |-> "none" ]
Zero   == [ n \in NameUniverse |-> 0 ]
NoLast == [ doc |-> NoDoc, env |-> Unasked, got |-> 0, sc |-> 0, fc |-> 0,
            fs |-> [ t \in Targets |-> NoFile ] ]

\* how an iteration is recorded: skipped, counted as success, failed before
\* the POST, failed by ConnectionError, failed otherwise
Kind(o) ==
  IF o \in { "skip", "success", "readerr", "connerr" } THEN o ELSE "fail"
Failed == { "readerr", "connerr", "fail" }

Init ==
  /\ linesep \in LineSeps
  /\ inputExists \in BOOLEAN
  /\ outputExists \in BOOLEAN
  /\ inputFiles \in { S \in SUBSET NameUniverse :
                        /\ Cardinality(S) <= MaxFiles
                        /\ ~inputExists => S = {} }
  /\ fs \in { f \in [ Targets -> { NoFile, OldText } ] :
                \A t \in Targets :
                   f[t] # NoFile =>
                      outputExists /\ \E n \in inputFiles : Matches(n) /\ MdName(n) = t }
  /\ pc = "idle"
  /\ pdf_files = <<>>
  /\ index = 0
  /\ success_count = 0
  /\ fail_count = 0
  /\ printed = "none"
  /\ enumerated = FALSE
  /\ start = [ input |-> inputExists, output |-> outputExists, fs |-> fs,
               opens |-> [ t \in Targets |-> 0 ] ]
  /\ outcome = NoRun
  /\ posts = Zero
  /\ last = NoLast
  /\ prev = [ allSuccess |-> FALSE, failed |-> {} ]
  /\ succTotal = Zero
  /\ openTotal = [ t \in Targets |-> 0 ]
  /\ altDoc = NoDoc
  /\ fsAlt = fs
  /\ outcomeAlt = NoRun

config  == << linesep, inputFiles >>
totals  == << succTotal, openTotal >>
shadow  == << altDoc, fsAlt, outcomeAlt >>
thisRun == << enumerated, start, outcome, posts, last, prev >>
locals  == << pdf_files, index, success_count, fail_count >>

\* lines 141-142: the script is run (again)
Begin ==
  /\ pc \in { "idle", "done" }
  /\ pc' = "ensure_output"
  /\ pdf_files' = <<>>
  /\ index' = 0
  /\ success_count' = 0
  /\ fail_count' = 0
  /\ printed' = "none"
  /\ enumerated' = FALSE
  /\ start' = [ input |-> inputExists, output |-> outputExists, fs |-> fs,
                opens |-> openTotal ]
  /\ prev' = [ allSuccess |-> /\ printed = "summary"
                              /\ \A i \in 1 .. Len(pdf_files) :
                                    outcome[pdf_files[i]] = "success",
               failed |-> { n \in NameUniverse : outcome[n] \in Failed } ]
  /\ outcome' = NoRun
  /\ posts' = Zero
  /\ last' = NoLast
  /\ altDoc' = NoDoc
  /\ fsAlt' = fs
  /\ outcomeAlt' = NoRun
  /\ UNCHANGED << config, totals, inputExists, outputExists, fs >>

\* line 20: output_path.mkdir(parents=True, exist_ok=True).  OUTPUT_DIR is
\* INPUT_DIR\md (lines 8-10), so making it makes a missing INPUT_DIR too; a
\* configuration with OUTPUT_DIR elsewhere leaves INPUT_DIR as it is.
Mkdir(ok) ==
  /\ outputExists' = ok
  /\ inputExists' \in { inputExists, TRUE }

\* mutant of lines 22-24: the return after the message is missing
EnsureOutput_NoReturn ==
  /\ pc = "ensure_output"
  /\ IF outputExists
     THEN /\ pc' = "check_input"
          /\ UNCHANGED << outputExists, inputExists, printed >>
     ELSE \/ /\ Mkdir(TRUE)
             /\ pc' = "check_input"
             /\ UNCHANGED printed
          \/ /\ Mkdir(FALSE)
             /\ printed' = "no_output"
             /\ pc' = "check_input"
  /\ UNCHANGED << config, totals, shadow, thisRun, locals, fs >>

\* lines 17-24: make OUTPUT_DIR unless it exists; give up if that fails
EnsureOutput ==
  /\ pc = "ensure_output"
  /\ IF outputExists
     THEN /\ pc' = "check_input"
          /\ UNCHANGED << outputExists, inputExists, printed >>
     ELSE \/ /\ Mkdir(TRUE)
             /\ pc' = "check_input"
             /\ UNCHANGED printed
          \/ /\ Mkdir(FALSE)
             /\ printed' = "no_output"
             /\ pc' = "done"
  /\ UNCHANGED << config, totals, shadow, thisRun, locals, fs >>

\* lines 27-30
CheckInput ==
  /\ pc = "check_input"
  /\ IF inputExists
     THEN pc' = "enumerate" /\ UNCHANGED printed
     ELSE pc' = "done" /\ printed' = "no_input"
  /\ UNCHANGED << config, totals, shadow, thisRun, locals, fs,
                  inputExists, outputExists >>

\* lines 32-42
Enumerate ==
  /\ pc = "enumerate"
  /\ enumerated' = TRUE
  /\ \E order \in Perms({ n \in inputFiles : Matches(n) }) :
       /\ pdf_files' = order
       /\ IF order = <<>>
          THEN pc' = "done" /\ printed' = "no_pdf" /\ index' = 0
          ELSE pc' = "loop" /\ UNCHANGED printed /\ index' = 1
  /\ success_count' = 0
  /\ fail_count' = 0
  /\ UNCHANGED << config, totals, shadow, fs, inputExists, outputExists,
                  start, outcome, posts, last, prev >>

\* the iteration answered success:false (line 116)
ApiFalse(r) == r.outcome = "api"

\* the same iteration in the run where altDoc succeeded instead
AltStep(d, env, r) ==
  LET swap == altDoc = NoDoc /\ ApiFalse(r)
      a    == HandleDoc(fsAlt, d, IF swap THEN Inline ELSE env, linesep)
  IN  /\ altDoc' = IF swap THEN d ELSE altDoc
      /\ fsAlt' = a.fs
      /\ outcomeAlt' = [ outcomeAlt EXCEPT ![d] = Kind(a.outcome) ]

\* lines 45-131: one iteration, on the answers env
Iteration(d, env) ==
  LET r == HandleDoc(fs, d, env, linesep) IN
  /\ fs' = r.fs
  /\ outcome' = [ outcome EXCEPT ![d] = Kind(r.outcome) ]
  /\ posts' = [ posts EXCEPT ![d] = @ + r.posted ]
  /\ success_count' = success_count + (IF r.outcome = "success" THEN 1 ELSE 0)
  /\ fail_count' = fail_count + (IF r.outcome \in Failures THEN 1 ELSE 0)
  /\ succTotal' = [ succTotal EXCEPT ![d] = @ + (IF r.outcome = "success" THEN 1 ELSE 0) ]
  /\ openTotal' = [ openTotal EXCEPT ![MdName(d)] = @ + (IF r.opened THEN 1 ELSE 0) ]
  /\ last' = [ doc |-> d, env |-> env, got |-> r.got, sc |-> success_count,
               fc |-> fail_count, fs |-> fs ]
  /\ index' = index + 1
  /\ AltStep(d, env, r)
  /\ UNCHANGED << config, pc, pdf_files, printed, enumerated, start, prev,
                  inputExists, outputExists >>

\* lines 48-55: the output file exists, the document is skipped
IterateSkip ==
  /\ pc = "loop"
  /\ index <= Len(pdf_files)
  /\ AlreadyConverted(fs, pdf_files[index])
  /\ Iteration(pdf_files[index], Unasked)

\* lines 57-131: the document is read, posted and its response handled
IterateConvert ==
  /\ pc = "loop"
  /\ index <= Len(pdf_files)
  /\ ~AlreadyConverted(fs, pdf_files[index])
  /\ \E env \in Envs : Iteration(pdf_files[index], env)

\* mutant of lines 133-139: the function ends without the summary
Summary_Silent ==
  /\ pc = "loop"
  /\ index > Len(pdf_files)
  /\ pc' = "done"
  /\ last' = NoLast
  /\ UNCHANGED << config, totals, shadow, locals, fs, inputExists, outputExists,
                  enumerated, start, outcome, posts, prev, printed >>

\* lines 133-139
Summary ==
  /\ pc = "loop"
  /\ index > Len(pdf_files)
  /\ printed' = "summary"
  /\ pc' = "done"
  /\ last' = NoLast
  /\ UNCHANGED << config, totals, shadow, locals, fs, inputExists, outputExists,
                  enumerated, start, outcome, posts, prev >>

Run == EnsureOutput \/ CheckInput \/ Enumerate \/ IterateSkip \/ IterateConvert \/ Summary

Next == Begin \/ Run

Spec == Init /\ [][Next]_vars

\* a started run is not suspended for ever: the script is one sequential process
FairSpec == Spec /\ WF_vars(Run)

\* ----------------------------------------------------------------- claims
Docs    == { pdf_files[i] : i \in 1 .. Len(pdf_files) }
Found   == { n \in inputFiles : Matches(n) }
Skipped == { d \in Docs : outcome[d] = "skip" }
Tried   == { d \in Docs : outcome[d] \in { "success" } \cup Failed }
HadOutput(S) == { d \in S : start.fs[MdName(d)] # NoFile }
RECURSIVE Sum(_, _)
Sum(f, S) == IF S = {} THEN 0 ELSE LET x == CHOOSE y \in S : TRUE
                                   IN  f[x] + Sum(f, S \ {x})
Posts == Sum(posts, NameUniverse)
SharedTarget(S) == \E d, e \in S : d # e /\ MdName(d) = MdName(e)
LoopOver == pc = "done" /\ printed = "summary"
Asked(env) == env.readable /\ env.post = "resp"

\* C1 as stated: a run over an input directory with N matching files, M of
\* which had their '<stem>.md' when the run started, has sent exactly N-M POSTs
\* and skipped exactly M documents (read of the runs that get to the loop).
C1_Original ==
  LoopOver =>
     /\ Posts = Cardinality(Found) - Cardinality(HadOutput(Found))
     /\ Cardinality(Skipped) = Cardinality(HadOutput(Found))

\* C1 as amended: in a run that reaches the loop every enumerated document is
\* handled once, skipped or tried; a document whose output file existed at the
\* start is skipped, so at least M are skipped; a skipped document and one whose
\* source file cannot be read get no POST, every other tried document gets
\* exactly one, so at most N-M POSTs are sent; and the counts are exactly N-M
\* and M when no two documents share an output name and every file is readable.
C1_Counts ==
  /\ \A d \in NameUniverse :
       /\ posts[d] <= 1
       /\ posts[d] = 1 <=> outcome[d] \in { "success", "connerr", "fail" }
       /\ outcome[d] # "none" => d \in Docs
  /\ LoopOver =>
       LET N == Len(pdf_files)
           M == Cardinality(HadOutput(Docs))
       IN  /\ Docs = Found /\ Cardinality(Docs) = N
           /\ Skipped \cup Tried = Docs
           /\ HadOutput(Docs) \subseteq Skipped
           /\ Posts <= N - M
           /\ Posts = Cardinality({ d \in Tried : outcome[d] # "readerr" })
           /\ (~SharedTarget(Docs) /\ \A d \in Docs : outcome[d] # "readerr")
                => Posts = N - M /\ Cardinality(Skipped) = M

C1_Witness ==
  /\ LoopOver
  /\ Len(pdf_files) = 2
  /\ Cardinality(HadOutput(Docs)) = 1
  /\ Cardinality(Skipped) = 1
  /\ Posts = 1

\* C2: when the run before this one ended with every enumerated document
\* counted as a success, this run sends no POST, opens and changes no output
\* file, counts no success and no failure, and ends with every document skipped.
PrevAllSuccess == prev.allSuccess
C2_Idempotent ==
  (PrevAllSuccess /\ pc # "idle") =>
     /\ Posts = 0
     /\ fs = start.fs
     /\ openTotal = start.opens
     /\ success_count = 0 /\ fail_count = 0
     /\ \A d \in NameUniverse : outcome[d] \in { "none", "skip" }
     /\ pc = "done" => printed = "summary" /\ Skipped = Found

C2_Witness ==
  /\ PrevAllSuccess
  /\ pc = "done"
  /\ Cardinality(Skipped) = 2

\* C3: once the loop has started no document's outcome stops it: the run ends
\* with the summary and every enumerated document skipped, counted as a success
\* or counted as a failure, so success_count + fail_count is the number of
\* documents not skipped; when every request sent met a connection error,
\* success_count is 0 and fail_count is that number.
C3_LoopCompletes ==
  /\ pc = "loop" =>
       /\ index - 1 = Cardinality(Skipped \cup Tried)
       /\ success_count + fail_count = Cardinality(Tried)
  /\ (pc = "done" /\ pdf_files # <<>>) =>
       /\ printed = "summary"
       /\ index = Len(pdf_files) + 1
       /\ Skipped \cup Tried = Docs
       /\ success_count = Cardinality({ d \in Docs : outcome[d] = "success" })
       /\ fail_count = Cardinality({ d \in Docs : outcome[d] \in Failed })
       /\ success_count + fail_count = Len(pdf_files) - Cardinality(Skipped)
       /\ (\A d \in Docs : posts[d] = 1 => outcome[d] = "connerr")
            => /\ success_count = 0
               /\ fail_count = Len(pdf_files) - Cardinality(Skipped)

C3_Witness ==
  /\ LoopOver
  /\ Len(pdf_files) = 2
  /\ \A d \in Docs : outcome[d] = "connerr"
  /\ success_count = 0
  /\ fail_count = 2

\* the latest iteration asked the service and got status 200, success false
LastApiFalse ==
  /\ last.doc # NoDoc
  /\ Asked(last.env)
  /\ last.env.status = HTTP_OK
  /\ last.env.body = "false"

\* what the iteration of a document answered 200 / success:false does: one
\* more failure, no more success, no output file opened, made or changed
C4_Frame ==
  LastApiFalse =>
     /\ fail_count = last.fc + 1
     /\ success_count = last.sc
     /\ fs = last.fs
     /\ outcome[last.doc] = "fail"
     /\ fs[MdName(last.doc)] = NoFile

\* document d ended the same way, and wrote the same text if it wrote any
SameAsIfSucceeded(d) ==
  /\ outcome[d] = outcomeAlt[d]
  /\ outcome[d] = "success" => fs[MdName(d)] = fsAlt[MdName(d)]

\* C4 as stated: that document is one more failure and gets no output file, and
\* every other document of the batch ends as in the run where it succeeded.
C4_Original ==
  /\ C4_Frame
  /\ altDoc # NoDoc => \A d \in Docs \ { altDoc } : SameAsIfSucceeded(d)

\* C4 as amended: that document is one more failure and gets no output file,
\* and every other document of the batch whose output file name is not that
\* document's ends as in the run where it succeeded.
C4_Unaffected ==
  /\ C4_Frame
  /\ altDoc # NoDoc =>
       \A d \in Docs \ { altDoc } :
          MdName(d) # MdName(altDoc) =>
             SameAsIfSucceeded(d) /\ fs[MdName(d)] = fsAlt[MdName(d)]

C4_Witness ==
  /\ LoopOver
  /\ altDoc = pdf_files[1]
  /\ Len(pdf_files) = 2
  /\ MdName(pdf_files[2]) # MdName(altDoc)
  /\ outcome[altDoc] = "fail"
  /\ outcomeAlt[altDoc] = "success"
  /\ outcome[pdf_files[2]] = "success"
  /\ fs[MdName(altDoc)] = NoFile
  /\ fail_count = 1

\* the latest iteration got 200, success true and a data object
LastOk ==
  /\ last.doc # NoDoc
  /\ Asked(last.env)
  /\ last.env.status = HTTP_OK
  /\ last.env.body = "ok"
LastFetched200 ==
  /\ LastOk
  /\ ~Truthy(last.env.content)
  /\ last.env.url
  /\ last.env.get = "resp"
  /\ last.env.gstatus = HTTP_OK
LastWritable == last.env.wopen /\ last.env.wkeep = -1
LastCountedSuccess ==
  /\ outcome[last.doc] = "success"
  /\ success_count = last.sc + 1
  /\ fail_count = last.fc

\* C5 as stated: with success true, no inline text and a markdownUrl whose GET
\* returns 200 and text X, the output file holds exactly X and the document is a
\* success; the GET is made only when there is no inline text; with inline text
\* the file holds exactly it and no GET is made (read of an output file that
\* can be opened and written).
C5_Original ==
  /\ (LastFetched200 /\ LastWritable) =>
       /\ fs[MdName(last.doc)] = last.env.gtext
       /\ LastCountedSuccess
  /\ (LastOk /\ last.got > 0) => ~Truthy(last.env.content)
  /\ (LastOk /\ Truthy(last.env.content) /\ LastWritable) =>
       /\ fs[MdName(last.doc)] = last.env.content
       /\ last.got = 0

\* the file holds text t as the text-mode writer leaves it: every "\n" of t as
\* the platform's line separator, hence t itself where that is "\n"
Holds(t) ==
  /\ fs[MdName(last.doc)] = Encode(t, linesep)
  /\ linesep = <<"\n">> => fs[MdName(last.doc)] = t

\* C5 as amended: the same for a non-empty X and an output file that can be
\* opened and written, the file holding X with every "\n" written as the
\* platform's line separator; an empty X is a failure and makes no file; the GET
\* is made only when there is no inline text, and exactly once; with inline
\* text no GET is made and, the file being writable, it holds the inline text
\* written the same way.
C5_Fallback ==
  /\ (LastFetched200 /\ Truthy(last.env.gtext) /\ LastWritable) =>
       /\ Holds(last.env.gtext)
       /\ LastCountedSuccess
       /\ last.got = 1
  /\ (LastFetched200 /\ ~Truthy(last.env.gtext)) =>
       /\ fs = last.fs
       /\ outcome[last.doc] = "fail"
  /\ (last.doc # NoDoc /\ last.got > 0) =>
       LastOk /\ ~Truthy(last.env.content) /\ last.env.url /\ last.got = 1
  /\ (LastOk /\ Truthy(last.env.content)) =>
       /\ last.got = 0
       /\ LastWritable => Holds(last.env.content) /\ LastCountedSuccess

C5_Witness ==
  /\ LastFetched200
  /\ last.env.gtext = Text
  /\ last.got = 1
  /\ fs[MdName(last.doc)] = Encode(Text, linesep)
  /\ outcome[last.doc] = "success"
  /\ last.fs[MdName(last.doc)] = NoFile

\* C6 as stated: when the input directory does not exist, or the output
\* directory is missing and cannot be made, the run ends without enumerating,
\* without a POST and without writing a file; and with the input directory
\* missing no output directory is made.
C6_Original ==
  pc = "done" =>
     /\ (~start.input \/ printed = "no_output") =>
          ~enumerated /\ Posts = 0 /\ fs = start.fs
     /\ ~start.input => outputExists = start.output

\* C6 as amended: the output directory is ensured first and the input
\* directory is looked at after that.  When the output directory is missing and
\* cannot be made, or the input directory does not exist once the output
\* directory is there, the run ends without enumerating, without a POST and
\* without opening a file; the second case leaves the output directory in
\* place, made by this run if it was missing.  No document is enumerated or
\* handled unless both directories exist.
C6_Fatal ==
  /\ (pc = "done" /\ printed \in { "no_output", "no_input" }) =>
       /\ ~enumerated /\ pdf_files = <<>>
       /\ Posts = 0 /\ fs = start.fs /\ openTotal = start.opens
       /\ outcome = NoRun
       /\ printed = "no_output" => ~start.output /\ ~outputExists
       /\ printed = "no_input" => ~inputExists /\ ~start.input /\ outputExists
  /\ (pc = "done" /\ ~enumerated) => printed \in { "no_output", "no_input" }
  /\ (enumerated \/ pc \in { "enumerate", "loop" }) => inputExists /\ outputExists

C6_Witness ==
  /\ pc = "done"
  /\ printed = "no_input"
  /\ ~start.output
  /\ outputExists

\* C7 as stated: every finished run has printed the final summary.
C7_Original == pc = "done" => printed = "summary"

\* C7 as amended: every run terminates; it prints the final summary exactly
\* when the loop was entered, that is when both directories are there and at
\* least one '*.pdf' was found, and then as its last message; on the three
\* early returns it prints that return's message and no summary.
Running == pc \in { "ensure_output", "check_input", "enumerate", "loop" }
C7_Terminates ==
  /\ Running ~> pc = "done"
  /\ [](pc = "done" =>
          /\ printed \in { "summary", "no_output", "no_input", "no_pdf" }
          /\ printed = "summary" <=> pdf_files # <<>>
          /\ printed = "no_pdf" <=> (enumerated /\ pdf_files = <<>>))
  /\ [](Running => printed = "none")

C7_Witness ==
  /\ LoopOver
  /\ success_count = 1
  /\ fail_count = 1
  /\ Cardinality(Skipped) = 0

\* C8 as stated: every 2xx status with success true and non-empty inline text
\* has the text written and success_count incremented; only a status that is
\* not 2xx is a failure on status grounds (read of an output file that can be
\* opened and written, the text written as the text-mode writer writes it).
Is2xx(s) == s \in 200 .. 299
LastInline(ok) ==
  /\ last.doc # NoDoc
  /\ Asked(last.env)
  /\ ok
  /\ last.env.body = "ok"
  /\ Truthy(last.env.content)
C8_Original ==
  /\ (LastInline(Is2xx(last.env.status)) /\ LastWritable) =>
       Holds(last.env.content) /\ LastCountedSuccess
  /\ (last.doc # NoDoc /\ Asked(last.env) /\ outcome[last.doc] = "fail"
        /\ last.env.body = "ok" /\ Truthy(last.env.content) /\ LastWritable)
       => ~Is2xx(last.env.status)

\* C8 as amended: the status decides by equality with 200: status 200 with
\* success true and non-empty inline text, the output file being writable, has
\* the text written (every "\n" as the platform's line separator) and
\* success_count incremented; every other status, 201 included, is one more
\* failure whatever the body says, with no output file opened.
C8_Status200 ==
  /\ (LastInline(last.env.status = 200) /\ LastWritable) =>
       Holds(last.env.content) /\ LastCountedSuccess
  /\ (last.doc # NoDoc /\ Asked(last.env) /\ last.env.status # 200) =>
       /\ outcome[last.doc] = "fail"
       /\ fail_count = last.fc + 1
       /\ success_count = last.sc
       /\ fs = last.fs
       /\ last.got = 0

C8_Witness ==
  /\ LastInline(last.env.status = 201)
  /\ outcome[last.doc] = "fail"
  /\ fs[MdName(last.doc)] = NoFile
  /\ fail_count = last.fc + 1

\* C9: an output file that exists is never opened for writing or changed, by
\* any iteration of any run; no output file is opened for writing twice; and no
\* document is counted as a success twice.
C9_AtMostOnce ==
  /\ [][\A t \in Targets :
          fs[t] # NoFile => fs'[t] = fs[t] /\ openTotal'[t] = openTotal[t]]_vars
  /\ [](\A t \in Targets : openTotal[t] <= 1)
  /\ [](\A d \in NameUniverse : succTotal[d] <= 1)

C9_Witness ==
  \E d \in Docs :
     /\ succTotal[d] = 1
     /\ prev.allSuccess
     /\ outcome[d] = "skip"
     /\ fs[MdName(d)] = Encode(Text, linesep)
     /\ start.fs[MdName(d)] = fs[MdName(d)]

\* C10: an output file is there only if it was there when the run started or
\* its document was counted as a success in this run; an iteration counted as a
\* failure leaves the output directory as it found it; and a document that
\* failed in the run before (no other document sharing its output name) is not
\* skipped in this one.
C10_Claim ==
  /\ \A t \in Targets :
       fs[t] # NoFile =>
          \/ start.fs[t] # NoFile
          \/ \E d \in Docs : MdName(d) = t /\ outcome[d] = "success"
  /\ (last.doc # NoDoc /\ outcome[last.doc] \in Failed) => fs = last.fs
  /\ \A d \in Docs :
       (d \in prev.failed /\ ~SharedTarget(Found)) => outcome[d] # "skip"

============================================================================
